---------------------------- MODULE Spec2Model ----------------------------
(***************************************************************************)
(* Model of readme-bot: the section merge engine of the GitHub client,     *)
(* the response parser of the Claude client and the webhook handler that   *)
(* ties them together.  Text is a sequence of one-character strings.       *)
(***************************************************************************)
EXTENDS Integers, Sequences, FiniteSets, TLC

(***************************************************************************)
(* Bounds of the model.                                                    *)
(***************************************************************************)
MaxLines == 3
MaxBodyLines == 2
MaxApply == 2
MaxReplyPieces == 4
MaxChain == 4
NumDeliveries == 2

(***************************************************************************)
(* Characters and string helpers.                                          *)
(***************************************************************************)
NL == "\n"
HASH == "#"
SP == " "

IsSpace(c) == c \in {SP, NL}

\* String.prototype.toLowerCase on one character of the alphabet in use.
Lower(c) == CASE c = "S" -> "s" [] c = "X" -> "x" [] c = "A" -> "a" [] OTHER -> c

toLowerCase(s) == [k \in 1..Len(s) |-> Lower(s[k])]

\* String.prototype.includes
includes(s, sub) ==
  \E p \in 0..(Len(s) - Len(sub)) : \A k \in 1..Len(sub) : s[p + k] = sub[k]

RECURSIVE SplitAcc(_, _, _)
SplitAcc(s, i, cur) ==
  IF i > Len(s) THEN <<cur>>
  ELSE IF s[i] = NL THEN <<cur>> \o SplitAcc(s, i + 1, <<>>)
  ELSE SplitAcc(s, i + 1, Append(cur, s[i]))

\* content.split("\n")
split(s) == SplitAcc(s, 1, <<>>)

RECURSIVE join(_)
\* lines.join("\n")
join(lines) ==
  IF Len(lines) = 0 THEN <<>>
  ELSE IF Len(lines) = 1 THEN lines[1]
  ELSE lines[1] \o <<NL>> \o join(Tail(lines))

(***************************************************************************)
(* Regular expressions of the merge engine.                                *)
(***************************************************************************)
MetaChars == {".", "*", "+", "?", "^", "$", "{", "}", "(", ")", "|", "[", "]", "\\"}

\* a pattern built from the section name as it is
escapeRegExp_none(s) == s

RECURSIVE escapeRegExp(_)
\* sectionName.replace(/[.*+?^${}()|[\]\\]/g, "\\$&")
escapeRegExp(s) ==
  IF Len(s) = 0 THEN <<>>
  ELSE (IF Head(s) \in MetaChars THEN <<"\\", Head(s)>> ELSE <<Head(s)>>)
       \o escapeRegExp(Tail(s))

RECURSIVE compileAtoms(_)
\* new RegExp(source): an escaped character is a literal, a bare "." is any
\* character, every other character of the alphabet in use is a literal.
compileAtoms(src) ==
  IF Len(src) = 0 THEN <<>>
  ELSE IF Head(src) = "\\" /\ Len(src) >= 2
       THEN <<[any |-> FALSE, ch |-> src[2]]>> \o compileAtoms(Tail(Tail(src)))
  ELSE IF Head(src) = "."
       THEN <<[any |-> TRUE, ch |-> "."]>> \o compileAtoms(Tail(src))
  ELSE <<[any |-> FALSE, ch |-> Head(src)]>> \o compileAtoms(Tail(src))

\* one atom against one character, flag "i"
AtomMatches(atom, c) == IF atom.any THEN c # NL ELSE Lower(atom.ch) = Lower(c)

\* new RegExp(`^#{1,6}\\s*${escaped}`, "i").test(line)
sectionPattern(sectionName, line) ==
  LET atoms == compileAtoms(escapeRegExp(sectionName)) IN
  \E h \in 1..6 : \E w \in 0..Len(line) :
    /\ h + w + Len(atoms) <= Len(line)
    /\ \A k \in 1..h : line[k] = HASH
    /\ \A k \in (h + 1)..(h + w) : IsSpace(line[k])
    /\ \A k \in 1..Len(atoms) : AtomMatches(atoms[k], line[h + w + k])

\* lines[idx].match(/^#{1,6}\s/)
headingPattern(line) ==
  \E h \in 1..6 :
    /\ h + 1 <= Len(line)
    /\ \A k \in 1..h : line[k] = HASH
    /\ IsSpace(line[h + 1])

\* a scan that stops at the first heading line, whatever its text
firstMatch_anyHeading(lines, sectionName, i) ==
  IF \E k \in i..Len(lines) : headingPattern(lines[k])
  THEN CHOOSE k \in i..Len(lines) :
         headingPattern(lines[k]) /\ \A j \in i..(k - 1) : ~headingPattern(lines[j])
  ELSE 0

RECURSIVE firstMatch(_, _, _)
\* for (let i = 0; i < lines.length; i++) if (line && pattern.test(line)) ...
\* the 1-based index of the first matching line, 0 when the loop ends.
firstMatch(lines, sectionName, i) ==
  IF i > Len(lines) THEN 0
  ELSE IF Len(lines[i]) > 0 /\ sectionPattern(sectionName, lines[i]) THEN i
  ELSE firstMatch(lines, sectionName, i + 1)

RECURSIVE sectionEnd(_, _)
\* while (endIndex < lines.length && !lines[endIndex].match(/^#{1,6}\s/)) endIndex++
sectionEnd(lines, idx) ==
  IF idx > Len(lines) THEN idx
  ELSE IF headingPattern(lines[idx]) THEN idx
  ELSE sectionEnd(lines, idx + 1)

\* lines.splice(start, deleteCount, ...items) with 1-based start
splice(lines, start, deleteCount, items) ==
  SubSeq(lines, 1, start - 1) \o items
    \o SubSeq(lines, start + deleteCount, Len(lines))

(***************************************************************************)
(* Section merge engine (GitHubClient).                                    *)
(***************************************************************************)
NoSection == [lineIndex |-> 0, line |-> <<>>]

findSection(content, sectionName) ==
  LET lines == split(content)
      i == firstMatch(lines, sectionName, 1)
  IN IF i = 0 THEN NoSection ELSE [lineIndex |-> i, line |-> lines[i]]

\* an insertion right below the matched heading line
insertAfterSection_atHeading(content, afterSectionName, newContent) ==
  LET lines == split(content)
      i == firstMatch(lines, afterSectionName, 1)
  IN IF i = 0 THEN content \o <<NL, NL>> \o newContent
     ELSE join(splice(lines, i + 1, 0, <<<<>>>> \o split(newContent) \o <<<<>>>>))

insertAfterSection(content, afterSectionName, newContent) ==
  LET lines == split(content)
      i == firstMatch(lines, afterSectionName, 1)
  IN IF i = 0 THEN content \o <<NL, NL>> \o newContent
     ELSE LET insertIndex == sectionEnd(lines, i + 1)
          IN join(splice(lines, insertIndex, 0,
                         <<<<>>>> \o split(newContent) \o <<<<>>>>))

\* updateSection with a splice that removes one line too many
updateSection_overrun(content, sectionName, newContent) ==
  LET lines == split(content)
      i == firstMatch(lines, sectionName, 1)
  IN IF i = 0 THEN content
     ELSE LET endIndex == sectionEnd(lines, i + 1)
          IN join(splice(lines, i, endIndex - i + 1, split(newContent)))

\* updateSection that inserts the body and keeps the old section
updateSection_keepsOld(content, sectionName, newContent) ==
  LET lines == split(content)
      i == firstMatch(lines, sectionName, 1)
  IN IF i = 0 THEN content
     ELSE join(splice(lines, i, 0, split(newContent)))

updateSection(content, sectionName, newContent) ==
  LET lines == split(content)
      i == firstMatch(lines, sectionName, 1)
  IN IF i = 0 THEN content
     ELSE LET endIndex == sectionEnd(lines, i + 1)
          IN join(splice(lines, i, endIndex - i, split(newContent)))

NewSectionLit == <<"n", "e", "w", " ", "s", "e", "c", "t", "i", "o", "n">>
AfterLit == <<"a", "f", "t", "e", "r">>

RECURSIVE spaceRun(_, _)
\* length of the whitespace run of s that starts at index i
spaceRun(s, i) ==
  IF i > Len(s) \/ ~IsSpace(s[i]) THEN 0 ELSE 1 + spaceRun(s, i + 1)

\* section.match(/after\s+(.+)$/i) tried at offset p: the captured group,
\* or <<>> when the expression does not match there.
afterCaptureAt(section, p) ==
  IF p + 6 > Len(section) THEN <<>>
  ELSE IF \E k \in 1..5 : Lower(section[p + k]) # AfterLit[k] THEN <<>>
  ELSE LET w == spaceRun(section, p + 6)
           rest == SubSeq(section, p + 6 + w, Len(section))
       IN IF w = 0 THEN <<>>
          ELSE IF Len(rest) > 0
               THEN (IF \E k \in 1..Len(rest) : rest[k] = NL THEN <<>> ELSE rest)
          ELSE IF w >= 2 /\ section[Len(section)] # NL
               THEN <<section[Len(section)]>>
          ELSE <<>>

RECURSIVE afterMatch(_, _)
\* the leftmost match of /after\s+(.+)$/i from offset p on
afterMatch(section, p) ==
  IF p + 6 > Len(section) THEN <<>>
  ELSE IF afterCaptureAt(section, p) # <<>> THEN afterCaptureAt(section, p)
  ELSE afterMatch(section, p + 1)

\* applySingleSuggestion without its test for an empty body
applySingleSuggestion_noEmptyTest(content, suggestion) ==
  LET section == suggestion.section
      suggestionContent == suggestion.content
  IN IF includes(toLowerCase(section), NewSectionLit)
          THEN content \o <<NL, NL>> \o suggestionContent
     ELSE IF includes(toLowerCase(section), AfterLit \o <<SP>>)
             /\ afterMatch(section, 0) # <<>>
          THEN insertAfterSection(content, afterMatch(section, 0), suggestionContent)
     ELSE IF findSection(content, section) # NoSection
          THEN updateSection(content, section, suggestionContent)
     ELSE content \o <<NL, NL>> \o suggestionContent

applySingleSuggestion(content, suggestion) ==
  LET section == suggestion.section
      suggestionContent == suggestion.content
  IN IF Len(suggestionContent) = 0 THEN content
     ELSE IF includes(toLowerCase(section), NewSectionLit)
          THEN content \o <<NL, NL>> \o suggestionContent
     ELSE IF includes(toLowerCase(section), AfterLit \o <<SP>>)
             /\ afterMatch(section, 0) # <<>>
          THEN insertAfterSection(content, afterMatch(section, 0), suggestionContent)
     ELSE IF findSection(content, section) # NoSection
          THEN updateSection(content, section, suggestionContent)
     ELSE content \o <<NL, NL>> \o suggestionContent

RECURSIVE applySuggestionsToReadme_reversed(_, _)
\* a loop that runs over the suggestions from the last to the first
applySuggestionsToReadme_reversed(readmeContent, suggestions) ==
  IF Len(suggestions) = 0 THEN readmeContent
  ELSE applySingleSuggestion(
         applySuggestionsToReadme_reversed(readmeContent, Tail(suggestions)),
         Head(suggestions))

RECURSIVE applySuggestionsToReadme(_, _)
applySuggestionsToReadme(readmeContent, suggestions) ==
  IF Len(suggestions) = 0 THEN readmeContent
  ELSE applySuggestionsToReadme(
         applySingleSuggestion(readmeContent, Head(suggestions)),
         Tail(suggestions))

(***************************************************************************)
(* Response parser (ClaudeClient).  A model reply is a sequence of tokens: *)
(* braces, brackets and commas, the keys of the result object (each with   *)
(* its colon), the literals true and false, string literals, and "p" for   *)
(* any stretch of prose without braces.                                    *)
(***************************************************************************)
Keys == {"needsUpdate:", "suggestions:", "error:", "section:", "content:"}

\* the string literals that occur in replies, with the text they denote
StrVal(tok) ==
  CASE tok = "'s'" -> <<"s">>
    [] tok = "'# s|x'" -> <<"#", " ", "s", NL, "x">>
    [] tok = "'x'" -> <<"x">>
    [] tok = "'new section'" -> NewSectionLit
    [] OTHER -> <<"e">>

StrToks == {"'s'", "'# s|x'", "'x'", "'new section'", "'e'"}

Undef == [t |-> "undefined"]
EmptyObj == [t |-> "object", m |-> [k \in Keys |-> Undef]]
ParseFail == [ok |-> FALSE, val |-> Undef, next |-> 0]

RECURSIVE parseValue(_, _), parseMembers(_, _, _), parseElements(_, _, _)

\* one JSON value that starts at token i
parseValue(ts, i) ==
  IF i > Len(ts) THEN ParseFail
  ELSE IF ts[i] = "true" THEN [ok |-> TRUE, val |-> [t |-> "boolean", b |-> TRUE], next |-> i + 1]
  ELSE IF ts[i] = "false" THEN [ok |-> TRUE, val |-> [t |-> "boolean", b |-> FALSE], next |-> i + 1]
  ELSE IF ts[i] \in StrToks THEN [ok |-> TRUE, val |-> [t |-> "string", s |-> StrVal(ts[i])], next |-> i + 1]
  ELSE IF ts[i] = "{"
       THEN (IF i + 1 <= Len(ts) /\ ts[i + 1] = "}"
             THEN [ok |-> TRUE, val |-> EmptyObj, next |-> i + 2]
             ELSE parseMembers(ts, i + 1, EmptyObj))
  ELSE IF ts[i] = "["
       THEN (IF i + 1 <= Len(ts) /\ ts[i + 1] = "]"
             THEN [ok |-> TRUE, val |-> [t |-> "array", items |-> <<>>], next |-> i + 2]
             ELSE parseElements(ts, i + 1, <<>>))
  ELSE ParseFail

\* the members of an object from token i on; a repeated key keeps the last value
parseMembers(ts, i, obj) ==
  IF i > Len(ts) \/ ts[i] \notin Keys THEN ParseFail
  ELSE LET v == parseValue(ts, i + 1)
           obj2 == [obj EXCEPT !.m[ts[i]] = v.val]
       IN IF ~v.ok \/ v.next > Len(ts) THEN ParseFail
          ELSE IF ts[v.next] = "}" THEN [ok |-> TRUE, val |-> obj2, next |-> v.next + 1]
          ELSE IF ts[v.next] = "," THEN parseMembers(ts, v.next + 1, obj2)
          ELSE ParseFail

\* the elements of an array from token i on
parseElements(ts, i, acc) ==
  LET v == parseValue(ts, i)
  IN IF ~v.ok \/ v.next > Len(ts) THEN ParseFail
     ELSE IF ts[v.next] = "]"
          THEN [ok |-> TRUE, val |-> [t |-> "array", items |-> Append(acc, v.val)], next |-> v.next + 1]
     ELSE IF ts[v.next] = "," THEN parseElements(ts, v.next + 1, Append(acc, v.val))
     ELSE ParseFail

\* JSON.parse: the whole text must be one value
JSONparse(ts) ==
  LET r == parseValue(ts, 1)
  IN IF r.ok /\ r.next = Len(ts) + 1 THEN r ELSE ParseFail

\* response.match(/\{[\s\S]*\}/): from the first "{" to the last "}"
jsonMatch(response) ==
  LET opens == {i \in 1..Len(response) : response[i] = "{"}
      first == CHOOSE i \in opens : \A j \in opens : i <= j
      closes == {i \in 1..Len(response) : response[i] = "}" /\ i > first}
      last == CHOOSE i \in closes : \A j \in closes : j <= i
  IN IF opens = {} \/ closes = {} THEN <<>> ELSE SubSeq(response, first, last)

NoError == ""
\* the text of an "error" member that a reply carries
ReplyErrorText == "e"
Return(v) == [kind |-> "return", value |-> v, message |-> ""]
Throw(msg) == [kind |-> "throw", value |-> Undef, message |-> msg]

\* the AnalysisResult that the decoded object is when it is returned as it is
AsResult(parsed) ==
  [needsUpdate |-> parsed.m["needsUpdate:"].b,
   suggestions |-> parsed.m["suggestions:"].items,
   error |-> IF parsed.m["error:"].t = "undefined" THEN NoError ELSE ReplyErrorText]

\* the try block of parseResponse
parseResponseTry(response) ==
  IF jsonMatch(response) = <<>> THEN Throw("No JSON found in response")
  ELSE LET r == JSONparse(jsonMatch(response))
       IN IF ~r.ok THEN Throw("Unexpected token in JSON")
          ELSE IF r.val.m["needsUpdate:"].t # "boolean"
               THEN Throw("Invalid response: needsUpdate must be boolean")
          ELSE IF r.val.m["suggestions:"].t # "array"
               THEN Throw("Invalid response: suggestions must be array")
          ELSE Return(AsResult(r.val))

\* parseResponse whose suggestions check sits outside the try block
parseResponse_uncaught(response) ==
  LET r == parseResponseTry(response)
  IN IF r.kind = "throw" /\ r.message # "Invalid response: suggestions must be array"
     THEN Return([needsUpdate |-> FALSE, suggestions |-> <<>>,
                  error |-> "Failed to parse response: " \o r.message])
     ELSE r

parseResponse(response) ==
  LET r == parseResponseTry(response)
  IN IF r.kind = "throw"
     THEN Return([needsUpdate |-> FALSE, suggestions |-> <<>>,
                  error |-> "Failed to parse response: " \o r.message])
     ELSE r

\* analyzeChanges once the prompt is built: api is what messages.create does
\* ("error": it rejects; "nontext": the first content block is not text;
\* "text": the first content block is the text reply)
analyzeChanges(api, reply) ==
  IF api = "error" THEN Throw("Failed to analyze changes: request failed")
  ELSE IF api = "nontext"
       THEN Throw("Failed to analyze changes: Unexpected response format from Claude API")
  ELSE LET r == parseResponse(reply)
       IN IF r.kind = "throw" THEN Throw("Failed to analyze changes: " \o r.message)
          ELSE r

(***************************************************************************)
(* Inputs of the response parser: replies are built from these pieces.     *)
(***************************************************************************)
OneSuggestion ==
  <<"{", "section:", "'s'", ",", "content:", "'# s|x'", "}">>

ReplyPieces ==
  { <<"{">>, <<"}">>, <<"p">>,
    <<"needsUpdate:", "true", ",", "suggestions:", "[">> \o OneSuggestion \o <<"]">>,
    <<"needsUpdate:", "false", ",", "suggestions:", "[", "]">>,
    <<"needsUpdate:", "'x'", ",", "suggestions:", "[", "]">>,
    <<"needsUpdate:", "true", ",", "suggestions:", "'x'">>,
    <<"needsUpdate:", "true">>,
    <<",", "error:", "'e'">> }

RECURSIVE concat(_)
concat(pieces) == IF Len(pieces) = 0 THEN <<>> ELSE Head(pieces) \o concat(Tail(pieces))

(***************************************************************************)
(* Inputs of the merge engine.                                             *)
(***************************************************************************)
DocLineKinds ==
  { <<>>,
    <<"x">>,
    <<"#", " ", "s">>,
    <<"#", "s">>,
    <<"#", "#", " ", "S", "x">>,
    <<"#", " ", "x">> }

BodyLineKinds ==
  { <<>>,
    <<"x">>,
    <<"#", " ", "s">>,
    <<"#", " ", "x">> }

SectionNames ==
  { <<"s">>,
    <<"S">>,
    <<"z">>,
    NewSectionLit,
    <<"a", "f", "t", "e", "r", " ", "s">>,
    <<"A", "f", "t", "e", "r", " ", "z">> }

LineSeqs(kinds, n) == UNION { [1..k -> kinds] : k \in 1..n }

Docs == { join(ls) : ls \in LineSeqs(DocLineKinds, MaxLines) }
Bodies == { join(ls) : ls \in LineSeqs(BodyLineKinds, MaxBodyLines) }

Replies == { concat(ps) : ps \in UNION { [1..k -> ReplyPieces] : k \in 0..MaxReplyPieces } }

VARIABLES
  mSugg,      \* merge engine: the suggestion under application
  mHist,      \* merge engine: the document before and after each application
  mList,      \* merge engine: the suggestion list handed to applySuggestionsToReadme
  mFound,     \* merge engine: what findSection returned for the document
  pReply,     \* parser: the text of the model reply
  pParsed,    \* parser: the outcome of parseResponse(pReply)
  pAnalysis,  \* parser: the outcome of analyzeChanges with reply pReply
  apiKey,     \* webhook: process.env.ANTHROPIC_API_KEY is set
  readmeMain, \* platform: README.md of the repository at ref "main"
  readmeHead, \* platform: README.md of the head repository on the PR's head branch
  comments,   \* platform: the comments of the pull request, oldest first
  req,        \* per delivery: the event handed to main
  pc,         \* per delivery: the call the delivery is waiting for
  readme,     \* per delivery: the text returned by getCurrentReadme
  analysis,   \* per delivery: the result of analyzeChanges
  updated,    \* per delivery: updatedReadme of commitReadmeUpdates
  sha,        \* per delivery: the sha read from the head branch
  commitErr,  \* per delivery: message of the error thrown by commitReadmeUpdates
  result,     \* per delivery: the response of main and the error it caught
  trace,      \* per delivery: the downstream calls and log lines so far
  overlap,    \* pairs of deliveries that were inside commitReadmeUpdates together
  hops,      \* per delivery: how many actions of the bot lie between a user's event and it
  announced   \* platform: the actions of the bot whose event was delivered

mergeVars == <<mSugg, mHist, mList, mFound>>
parseVars == <<pReply, pParsed, pAnalysis>>
platformVars == <<readmeMain, readmeHead, comments>>
deliveryVars == <<req, pc, readme, analysis, updated, sha, commitErr, result, trace, overlap>>
chainVars == <<hops, announced>>
hookVars == <<apiKey, readmeMain, readmeHead, comments, req, pc, readme, analysis,
              updated, sha, commitErr, result, trace, overlap, hops, announced>>
vars == <<mSugg, mHist, mList, mFound, pReply, pParsed, pAnalysis, apiKey, readmeMain, readmeHead,
          comments, req, pc, readme, analysis, updated, sha, commitErr, result,
          trace, overlap, hops, announced>>

Last(s) == s[Len(s)]

Pending == [kind |-> "pending", value |-> Undef, message |-> ""]

\* findSection has not been called
NotCalled == [lineIndex |-> -1, line |-> <<>>]

MergeIdle ==
  /\ mSugg = [section |-> <<>>, content |-> <<>>]
  /\ mHist = <<>>
  /\ mList = <<>>
  /\ mFound = NotCalled

ParseIdle ==
  /\ pReply = <<>>
  /\ pParsed = Pending
  /\ pAnalysis = Pending

(***************************************************************************)
(* Webhook handler (main, analyzePR, commitReadmeFromAnalysis) and the     *)
(* calls it makes on the hosting platform.                                 *)
(***************************************************************************)
Deliveries == 1..NumDeliveries

ApplyCommand ==
  <<"@", "p", "r", "o", "t", "o", "t", "y", "p", "-", "r", "e", "a", "d", "m", "e",
    "-", "b", "o", "t", " ", "a", "p", "p", "l", "y">>

RECURSIVE trimStart(_)
trimStart(s) == IF Len(s) > 0 /\ IsSpace(Head(s)) THEN trimStart(Tail(s)) ELSE s

\* a trim that leaves whitespace at the end of the text
trimEnd_none(s) == s

RECURSIVE trimEnd(_)
trimEnd(s) ==
  IF Len(s) > 0 /\ IsSpace(s[Len(s)]) THEN trimEnd(SubSeq(s, 1, Len(s) - 1)) ELSE s

\* a comparison of the comment text as it was typed
trim_none(s) == s

\* String.prototype.trim
trim(s) == trimEnd(trimStart(s))

\* a list of handled actions that also lets label events through
HandledActions_labeled == {"opened", "synchronize", "reopened", "labeled"}

HandledActions == {"opened", "synchronize", "reopened"}

Respond(status, body) == [kind |-> "respond", status |-> status, body |-> body, fn |-> ""]
TypeError == [kind |-> "throw", status |-> 0, body |-> "", fn |-> ""]
Call(fn) == [kind |-> "call", status |-> 0, body |-> "", fn |-> fn]

\* main from the test of the event type up to its first await
route(r) ==
  LET pl == r.payload IN
  IF r.eventType \notin {"pull_request", "issue_comment"}
       THEN Respond(200, "Event ignored")
  ELSE IF r.eventType = "pull_request"
       THEN (IF pl.pull_request = "missing"
             THEN Respond(400, "Invalid pull request payload")
             ELSE IF pl.repository = "missing" THEN TypeError
             ELSE IF pl.action \notin HandledActions
                  THEN Respond(200, "PR action ignored")
             ELSE IF pl.installation = "missing" THEN TypeError
             ELSE IF pl.repository = "noowner" THEN TypeError
             ELSE Call("analyzePR"))
  ELSE (IF pl.issue = "missing" \/ pl.comment = "missing"
        THEN Respond(400, "Invalid issue comment payload")
        ELSE IF pl.action # "created" THEN Respond(200, "Comment action ignored")
        ELSE IF pl.issue = "issue" THEN Respond(200, "Non-PR comment ignored")
        ELSE IF pl.body.t # "string" THEN TypeError
        ELSE IF trim(pl.body.s) # ApplyCommand
             THEN Respond(200, "Comment ignored - not apply command")
        ELSE IF pl.repository = "missing" \/ pl.user = "missing" THEN TypeError
        ELSE IF pl.installation = "missing" THEN TypeError
        ELSE IF pl.repository = "noowner" THEN TypeError
        ELSE Call("commitReadmeFromAnalysis"))

\* a main that looks for a payload before it looks at the method
dispatch_payloadFirst(r) ==
  IF r.payload.empty THEN Respond(400, "No payload provided")
  ELSE IF r.method # "POST" THEN Respond(405, "Method not allowed")
  ELSE route(r)

\* main up to its first await: a response, a thrown TypeError, or the call of
\* analyzePR / commitReadmeFromAnalysis
dispatch(r) ==
  IF r.method # "POST" THEN Respond(405, "Method not allowed")
  ELSE IF r.payload.empty THEN Respond(400, "No payload provided")
  ELSE route(r)

Marker == "<!-- README-BOT-ANALYSIS -->"

\* formatAnalysisComment: the parts of the comment text that depend on its
\* arguments (the timestamp and the fixed footer are left out)
formatAnalysisComment(an, hasExistingReadme, hasCommitResult, errorMessage) ==
  [marker |-> Marker,
   verdict |-> IF an.needsUpdate THEN "README updates recommended"
               ELSE "No README updates needed",
   listed |-> IF an.needsUpdate THEN Len(an.suggestions) ELSE 0,
   outcome |-> IF ~an.needsUpdate THEN ""
               ELSE IF hasCommitResult THEN "Changes Applied"
               ELSE IF errorMessage # "" THEN "Commit Failed"
               ELSE "Next Steps",
   errorMessage |-> IF an.needsUpdate /\ ~hasCommitResult THEN errorMessage ELSE "",
   noReadmeNote |-> ~hasExistingReadme]

\* a bot whose comment is the text of the apply command
commentText_command(c) == ApplyCommand

\* the text of the comment: the marker line, the heading line and, after the
\* parts that depend on the arguments, the footer
commentText(c) ==
  <<"<", "!", "-", "-", " ", "R", "E", "A", "D", "M", "E", "-", "B", "O", "T", "-",
    "A", "N", "A", "L", "Y", "S", "I", "S", " ", "-", "-", ">", NL,
    "#", "#", " ", "R", "E", "A", "D", "M", "E", NL, NL>>
    \o (IF c.noReadmeNote THEN <<"i", NL, NL>> ELSE <<>>)
    \o <<"-", "-", "-", NL, "*">>

\* a suggestion of the analysis as applySingleSuggestion destructures it
ToSuggestion(item) ==
  [section |-> IF item.t = "object" /\ item.m["section:"].t = "string"
               THEN item.m["section:"].s ELSE <<>>,
   content |-> IF item.t = "object" /\ item.m["content:"].t = "string"
               THEN item.m["content:"].s ELSE <<>>]

ToSuggestions(items) == [k \in 1..Len(items) |-> ToSuggestion(items[k])]

\* section.toLowerCase() on a suggestion with content but no string section
mergeThrows(items) ==
  \E k \in 1..Len(items) :
    /\ items[k].t = "object"
    /\ items[k].m["content:"].t = "string"
    /\ items[k].m["section:"].t # "string"

\* the blob sha of a file: a function of its content
Sha(content) == <<"sha", content>>
NoSha == <<>>

Absent == [exists |-> FALSE, content |-> <<>>]
File(content) == [exists |-> TRUE, content |-> content]

\* createOrUpdateFileContents on the platform: accepted when the sha sent is
\* the one of the file on the branch, or none is sent and there is no file
writeAccepted(file, sentSha) ==
  IF file.exists THEN sentSha = Sha(file.content) ELSE sentSha = NoSha

NoAnalysis == [needsUpdate |-> FALSE, suggestions |-> <<>>, error |-> NoError]
NoResult == [status |-> 0, body |-> "", error |-> ""]

(***************************************************************************)
(* Inputs of the webhook handler.                                          *)
(***************************************************************************)
Wrap(members) == <<"{">> \o members \o <<"}">>

ReplyUpdate ==
  Wrap(<<"needsUpdate:", "true", ",", "suggestions:", "[">> \o OneSuggestion \o <<"]">>)
ReplyNewSection ==
  Wrap(<<"needsUpdate:", "true", ",", "suggestions:", "[",
         "{", "section:", "'new section'", ",", "content:", "'x'", "}", "]">>)
ReplyNoUpdate == Wrap(<<"needsUpdate:", "false", ",", "suggestions:", "[", "]">>)
ReplyProse == <<"p">>
ReplyBadSuggestions == Wrap(<<"needsUpdate:", "true", ",", "suggestions:", "'x'">>)

HookReplies ==
  {ReplyUpdate, ReplyNewSection, ReplyNoUpdate, ReplyProse, ReplyBadSuggestions}

ReadmeFiles == {Absent, File(<<"x">>), File(<<"#", " ", "s", NL, "x">>)}

StringValue(s) == [t |-> "string", s |-> s]

CommentBodies ==
  { Undef,
    StringValue(ApplyCommand),
    StringValue(ApplyCommand \o <<SP>>),
    StringValue(<<NL>> \o ApplyCommand),
    StringValue(SubSeq(ApplyCommand, 1, 21) \o <<SP>> \o SubSeq(ApplyCommand, 22, 26)),
    StringValue(<<"x">>) }

EmptyPayload ==
  [empty |-> TRUE, action |-> "", repository |-> "missing", installation |-> "missing",
   pull_request |-> "missing", issue |-> "missing", comment |-> "missing",
   body |-> Undef, user |-> "missing"]

Payloads ==
  {EmptyPayload} \cup
  { pl \in [empty : {FALSE},
            action : {"", "opened", "synchronize", "reopened", "labeled", "created", "edited"},
            repository : {"missing", "noowner", "ok"},
            installation : {"missing", "ok"},
            pull_request : {"missing", "ok"},
            issue : {"missing", "issue", "pr"},
            comment : {"missing", "present"},
            body : CommentBodies,
            user : {"missing", "ok"}] :
      pl.comment = "missing" => (pl.body = Undef /\ pl.user = "missing") }

AllRequests ==
  [method : {"POST", "GET"},
   eventType : {"pull_request", "issue_comment", "push"},
   payload : Payloads]

WellFormed(action, isComment) ==
  [empty |-> FALSE, action |-> action, repository |-> "ok", installation |-> "ok",
   pull_request |-> IF isComment THEN "missing" ELSE "ok",
   issue |-> IF isComment THEN "pr" ELSE "missing",
   comment |-> IF isComment THEN "present" ELSE "missing",
   body |-> IF isComment THEN StringValue(ApplyCommand) ELSE Undef,
   user |-> IF isComment THEN "ok" ELSE "missing"]

\* the deliveries that reach analyzePR or commitReadmeFromAnalysis
PipelineRequests ==
  { [method |-> "POST", eventType |-> "pull_request", payload |-> WellFormed("opened", FALSE)],
    [method |-> "POST", eventType |-> "issue_comment", payload |-> WellFormed("created", TRUE)] }

\* deliveries are interchangeable: pull-request events take the lower numbers
Ordered(f) ==
  \A d, e \in Deliveries :
    (d < e /\ f[d].eventType = "issue_comment") => f[e].eventType = "issue_comment"

NoRequest == [method |-> "", eventType |-> "", payload |-> EmptyPayload]

HookIdle ==
  /\ apiKey = TRUE
  /\ readmeMain = Absent
  /\ readmeHead = Absent
  /\ comments = <<>>
  /\ req = [d \in Deliveries |-> NoRequest]
  /\ pc = [d \in Deliveries |-> "off"]
  /\ readme = [d \in Deliveries |-> <<>>]
  /\ analysis = [d \in Deliveries |-> NoAnalysis]
  /\ updated = [d \in Deliveries |-> <<>>]
  /\ sha = [d \in Deliveries |-> NoSha]
  /\ commitErr = [d \in Deliveries |-> ""]
  /\ result = [d \in Deliveries |-> NoResult]
  /\ trace = [d \in Deliveries |-> <<>>]
  /\ overlap = {}
  /\ hops = [d \in Deliveries |-> 0]
  /\ announced = {}

HookInitWith(requests) ==
  /\ apiKey \in BOOLEAN
  /\ readmeMain \in ReadmeFiles
  /\ readmeHead \in ReadmeFiles
  /\ comments = <<>>
  /\ req \in requests
  /\ pc = [d \in Deliveries |-> IF req[d] = NoRequest THEN "off" ELSE "main"]
  /\ readme = [d \in Deliveries |-> <<>>]
  /\ analysis = [d \in Deliveries |-> NoAnalysis]
  /\ updated = [d \in Deliveries |-> <<>>]
  /\ sha = [d \in Deliveries |-> NoSha]
  /\ commitErr = [d \in Deliveries |-> ""]
  /\ result = [d \in Deliveries |-> NoResult]
  /\ trace = [d \in Deliveries |-> <<>>]
  /\ overlap = {}
  /\ hops = [d \in Deliveries |-> 0]
  /\ announced = {}
  /\ MergeIdle
  /\ ParseIdle

\* concurrent deliveries that all reach the pipeline
Init == HookInitWith({ f \in [Deliveries -> PipelineRequests] : Ordered(f) })

\* one delivery with any event
DispatchInit ==
  HookInitWith({ [d \in Deliveries |-> IF d = 1 THEN r ELSE NoRequest] : r \in AllRequests })

(***************************************************************************)
(* Steps of a delivery.                                                    *)
(***************************************************************************)
Logged(d, entry) == [trace EXCEPT ![d] = Append(@, entry)]

\* main returns a response, or catches err and returns 500
Finish(d, status, body, err) ==
  /\ pc' = [pc EXCEPT ![d] = "done"]
  /\ result' = [result EXCEPT ![d] = [status |-> status, body |-> body, error |-> err]]

\* a catch block of main that answers as if the delivery had succeeded
Fail_swallowed(d, err) == Finish(d, 200, "Analysis complete", err)

\* a main without its catch block: the error leaves main, no response is made
Fail_escapes(d, err) == Finish(d, 0, "", err)

\* an error reaches the catch block of main
Fail(d, err) == Finish(d, 500, "Analysis failed", err)

InCommit(d) == pc[d] \in {"pulls.get", "repos.getContent", "createOrUpdateFileContents"}

\* main up to the first call on the platform
Main(d) ==
  /\ pc[d] = "main"
  /\ LET out == dispatch(req[d]) IN
       IF out.kind = "respond" THEN Finish(d, out.status, out.body, "")
       ELSE IF out.kind = "throw" THEN Fail(d, "TypeError")
       ELSE IF ~apiKey
            THEN Fail(d, "ANTHROPIC_API_KEY environment variable is required")
       ELSE /\ pc' = [pc EXCEPT ![d] = "getPullRequestData"]
            /\ UNCHANGED result
  /\ UNCHANGED <<apiKey, platformVars, req, readme, analysis, updated, sha,
                 commitErr, trace, overlap, mergeVars, parseVars, chainVars>>

GetPullRequestData(d) ==
  /\ pc[d] = "getPullRequestData"
  /\ trace' = Logged(d, "getPullRequestData")
  /\ \E ok \in BOOLEAN :
       IF ok THEN pc' = [pc EXCEPT ![d] = "getCurrentReadme"] /\ UNCHANGED result
       ELSE Fail(d, "Failed to fetch PR data: request failed")
  /\ UNCHANGED <<apiKey, platformVars, req, readme, analysis, updated, sha,
                 commitErr, overlap, mergeVars, parseVars, chainVars>>

\* getCurrentReadme(owner, repo): README.md at the default ref "main"; a 404
\* is the empty string
GetCurrentReadme(d) ==
  /\ pc[d] = "getCurrentReadme"
  /\ trace' = Logged(d, "getCurrentReadme")
  /\ \E ok \in BOOLEAN :
       IF ok THEN /\ readme' = [readme EXCEPT ![d] = readmeMain.content]
                  /\ pc' = [pc EXCEPT ![d] = "getDiffContent"]
                  /\ UNCHANGED result
       ELSE /\ Fail(d, "Failed to fetch README.md: request failed")
            /\ UNCHANGED readme
  /\ UNCHANGED <<apiKey, platformVars, req, analysis, updated, sha, commitErr,
                 overlap, mergeVars, parseVars, chainVars>>

GetDiffContent(d) ==
  /\ pc[d] = "getDiffContent"
  /\ trace' = Logged(d, "getDiffContent")
  /\ \E ok \in BOOLEAN :
       IF ok THEN pc' = [pc EXCEPT ![d] = "analyzeChanges"] /\ UNCHANGED result
       ELSE Fail(d, "Failed to fetch PR diff: request failed")
  /\ UNCHANGED <<apiKey, platformVars, req, readme, analysis, updated, sha,
                 commitErr, overlap, mergeVars, parseVars, chainVars>>

\* analyzePR that logs nothing about the error of the analysis
analysisWarning_silent(an) == <<>>

\* if (analysis.error) console.warn(`Analysis Error: ${analysis.error}`)
analysisWarning(an) ==
  IF an.error # NoError THEN <<"warn: Analysis Error">> ELSE <<>>

\* claude.analyzeChanges and the branch on its result: analyzePR goes on to
\* the comment, commitReadmeFromAnalysis returns or calls commitReadmeUpdates
AnalyzeChanges(d) ==
  /\ pc[d] = "analyzeChanges"
  /\ \E api \in {"text", "nontext", "error"} :
     \E reply \in IF api = "text" THEN HookReplies ELSE {ReplyProse} :
       LET r == analyzeChanges(api, reply) IN
       IF r.kind = "throw"
       THEN /\ Fail(d, r.message)
            /\ trace' = Logged(d, "messages.create")
            /\ UNCHANGED <<analysis, overlap>>
       ELSE /\ analysis' = [analysis EXCEPT ![d] = r.value]
            /\ IF req[d].eventType = "pull_request"
               THEN /\ pc' = [pc EXCEPT ![d] = "createAnalysisComment"]
                    /\ trace' = [trace EXCEPT ![d] =
                                   @ \o <<"messages.create">> \o analysisWarning(r.value)]
                    /\ UNCHANGED <<result, overlap>>
               ELSE IF ~r.value.needsUpdate
               THEN /\ Finish(d, 200, "Analysis complete", "")
                    /\ trace' = Logged(d, "messages.create")
                    /\ UNCHANGED overlap
               ELSE /\ pc' = [pc EXCEPT ![d] = "pulls.get"]
                    /\ trace' = Logged(d, "messages.create")
                    /\ overlap' = overlap \cup
                                    { {d, e} : e \in {x \in Deliveries : InCommit(x)} }
                    /\ UNCHANGED result
  /\ UNCHANGED <<apiKey, platformVars, req, readme, updated, sha, commitErr,
                 mergeVars, parseVars, chainVars>>

\* createAnalysisComment, then the rest of analyzePR: it returns on either
\* branch of needsUpdate, the commit block being commented out
CreateAnalysisComment(d) ==
  /\ pc[d] = "createAnalysisComment"
  /\ \E ok \in BOOLEAN :
       IF ok
       THEN /\ comments' = Append(comments,
                 [delivery |-> d,
                  body |-> formatAnalysisComment(analysis[d], Len(readme[d]) > 0, FALSE, "")])
            /\ trace' = Logged(d, "createComment: created")
       ELSE /\ trace' = [trace EXCEPT ![d] =
                           @ \o <<"createComment: failed", "warn: Failed to create PR comment">>]
            /\ UNCHANGED comments
  /\ Finish(d, 200, "Analysis complete", "")
  /\ UNCHANGED <<apiKey, readmeMain, readmeHead, req, readme, analysis, updated,
                 sha, commitErr, overlap, mergeVars, parseVars, chainVars>>

\* commitReadmeUpdates throws: the catch block of commitReadmeFromAnalysis
CommitFails(d, msg) ==
  /\ commitErr' = [commitErr EXCEPT ![d] = "Failed to commit README updates: " \o msg]
  /\ pc' = [pc EXCEPT ![d] = "createComment"]
  /\ UNCHANGED result

\* a merge that takes the suggestions of the first delivery's analysis
mergedReadme_stale(d) ==
  applySuggestionsToReadme(readme[d], ToSuggestions(analysis[1].suggestions))

\* a merge that ends the text it returns with a line break
mergedReadme_newline(d) ==
  applySuggestionsToReadme(readme[d], ToSuggestions(analysis[d].suggestions)) \o <<NL>>

\* commitReadmeUpdates(owner, repo, pullNumber, analysis.suggestions, readme):
\* the merge of the delivery's own suggestions into the text it fetched
mergedReadme(d) ==
  applySuggestionsToReadme(readme[d], ToSuggestions(analysis[d].suggestions))

\* commitReadmeUpdates: pulls.get for the head of the PR, then the merge
CommitPullsGet(d) ==
  /\ pc[d] = "pulls.get"
  /\ trace' = Logged(d, "pulls.get")
  /\ \E out \in {"ok", "no head repo", "error"} :
       IF out = "error" THEN CommitFails(d, "request failed") /\ UNCHANGED updated
       ELSE IF out = "no head repo"
       THEN /\ CommitFails(d, "Unable to determine head repository information from PR")
            /\ UNCHANGED updated
       ELSE IF mergeThrows(analysis[d].suggestions)
       THEN CommitFails(d, "TypeError") /\ UNCHANGED updated
       ELSE LET updatedReadme == mergedReadme(d)
            IN IF updatedReadme = readme[d]
               THEN /\ Finish(d, 200, "Analysis complete", "")
                    /\ UNCHANGED <<updated, commitErr>>
               ELSE /\ updated' = [updated EXCEPT ![d] = updatedReadme]
                    /\ pc' = [pc EXCEPT ![d] = "repos.getContent"]
                    /\ UNCHANGED <<result, commitErr>>
  /\ UNCHANGED <<apiKey, platformVars, req, readme, analysis, sha, overlap,
                 mergeVars, parseVars, chainVars>>

\* a client that addresses the repository of the webhook, the base of the PR
commitTarget_base == "base"

\* owner: headOwner, repo: headRepo, branch / ref: headBranch, all taken from
\* pr.data.head: the repository and branch that the lookup and the write address
commitTarget == "head"

\* README.md at the place a call addresses: the head branch of the head
\* repository, or the base repository
FileAt(target) == IF target = "head" THEN readmeHead ELSE readmeMain

\* commitReadmeUpdates: the sha of README.md on the head branch, none on a 404
CommitGetContent(d) ==
  /\ pc[d] = "repos.getContent"
  /\ trace' = Logged(d, "repos.getContent")
  /\ \E ok \in BOOLEAN :
       IF ok
       THEN /\ sha' = [sha EXCEPT ![d] =
                         IF FileAt(commitTarget).exists
                         THEN Sha(FileAt(commitTarget).content) ELSE NoSha]
            /\ pc' = [pc EXCEPT ![d] = "createOrUpdateFileContents"]
            /\ UNCHANGED <<result, commitErr>>
       ELSE CommitFails(d, "request failed") /\ UNCHANGED sha
  /\ UNCHANGED <<apiKey, platformVars, req, readme, analysis, updated, overlap,
                 mergeVars, parseVars, chainVars>>

\* commitReadmeUpdates: the write on the head branch with the sha read before
CommitWrite(d) ==
  /\ pc[d] = "createOrUpdateFileContents"
  /\ \E ok \in BOOLEAN :
       IF ~ok
       THEN /\ CommitFails(d, "request failed")
            /\ trace' = Logged(d, "createOrUpdateFileContents: failed")
            /\ UNCHANGED <<readmeHead, readmeMain>>
       ELSE IF writeAccepted(FileAt(commitTarget), sha[d])
       THEN /\ IF commitTarget = "head"
               THEN readmeHead' = File(updated[d]) /\ UNCHANGED readmeMain
               ELSE readmeMain' = File(updated[d]) /\ UNCHANGED readmeHead
            /\ trace' = Logged(d, "createOrUpdateFileContents: written")
            /\ Finish(d, 200, "Analysis complete", "")
            /\ UNCHANGED commitErr
       ELSE /\ CommitFails(d, "sha conflict")
            /\ trace' = Logged(d, "createOrUpdateFileContents: conflict")
            /\ UNCHANGED <<readmeHead, readmeMain>>
  /\ UNCHANGED <<apiKey, comments, req, readme, analysis, updated, sha,
                 overlap, mergeVars, parseVars, chainVars>>

\* the catch block of commitReadmeFromAnalysis: a new comment with the commit
\* error, then throw commitError; a failing createComment throws instead
CommitErrorComment(d) ==
  /\ pc[d] = "createComment"
  /\ \E ok \in BOOLEAN :
       IF ok
       THEN /\ comments' = Append(comments,
                 [delivery |-> d,
                  body |-> formatAnalysisComment(analysis[d], Len(readme[d]) > 0,
                                                 FALSE, commitErr[d])])
            /\ trace' = Logged(d, "createComment: created")
            /\ Fail(d, commitErr[d])
       ELSE /\ trace' = Logged(d, "createComment: failed")
            /\ Fail(d, "Failed to create comment: request failed")
            /\ UNCHANGED comments
  /\ UNCHANGED <<apiKey, readmeMain, readmeHead, req, readme, analysis, updated,
                 sha, commitErr, overlap, mergeVars, parseVars, chainVars>>

Next ==
  \E d \in Deliveries :
    \/ Main(d)
    \/ GetPullRequestData(d)
    \/ GetCurrentReadme(d)
    \/ GetDiffContent(d)
    \/ AnalyzeChanges(d)
    \/ CreateAnalysisComment(d)
    \/ CommitPullsGet(d)
    \/ CommitGetContent(d)
    \/ CommitWrite(d)
    \/ CommitErrorComment(d)

Spec == Init /\ [][Next]_vars

\* a pull-request delivery and an apply command for the same PR
SequelInit ==
  HookInitWith({ [d \in Deliveries |->
                    IF d = 1
                    THEN [method |-> "POST", eventType |-> "pull_request",
                          payload |-> WellFormed("opened", FALSE)]
                    ELSE IF d = 2
                    THEN [method |-> "POST", eventType |-> "issue_comment",
                          payload |-> WellFormed("created", TRUE)]
                    ELSE NoRequest] })

SpecSequel == SequelInit /\ [][Next]_vars

SpecDispatch == DispatchInit /\ [][Next]_vars

(***************************************************************************)
(* The merge engine applied to bounded documents and suggestions.          *)
(***************************************************************************)
MergeInit ==
  /\ mSugg \in [section : SectionNames, content : Bodies]
  /\ \E d \in Docs : mHist = <<d>>
  /\ mList = <<>>
  /\ mFound = NotCalled
  /\ ParseIdle
  /\ HookIdle

\* applySuggestionsToReadme on the document left by the previous application
MergeApply ==
  /\ Len(mHist) >= 1
  /\ Len(mHist) <= MaxApply
  /\ mHist' = Append(mHist, applySuggestionsToReadme(Last(mHist), <<mSugg>>))
  /\ UNCHANGED <<mSugg, mList, mFound, parseVars, hookVars>>

MergeNext == MergeApply

SpecMerge == MergeInit /\ [][MergeNext]_vars

(***************************************************************************)
(* The merge engine applied to lists of suggestions.                       *)
(***************************************************************************)
ListBodies ==
  { <<>>,
    <<"x">>,
    <<"#", " ", "s">>,
    <<"#", " ", "s", NL, "x">> }

ListSuggestions == [section : SectionNames, content : ListBodies]

\* the lists of no, one and two suggestions
SuggestionLists ==
  {<<>>} \cup { <<a>> : a \in ListSuggestions }
         \cup { <<a, b>> : a \in ListSuggestions, b \in ListSuggestions }

ListInit ==
  /\ mList \in SuggestionLists
  /\ \E d \in Docs : mHist = <<d>>
  /\ mSugg = [section |-> <<>>, content |-> <<>>]
  /\ mFound = NotCalled
  /\ ParseIdle
  /\ HookIdle

\* applySuggestionsToReadme(readmeContent, suggestions)
MergeListApply ==
  /\ Len(mHist) = 1
  /\ mHist' = Append(mHist, applySuggestionsToReadme(mHist[1], mList))
  /\ UNCHANGED <<mSugg, mList, mFound, parseVars, hookVars>>

ListNext == MergeListApply

SpecList == ListInit /\ [][ListNext]_vars

(***************************************************************************)
(* findSection and updateSection applied to names with metacharacters.     *)
(***************************************************************************)
FindLineKinds ==
  { <<>>,
    <<"x">>,
    <<"#", " ", "s", "x">>,
    <<"#", " ", "S", ".">>,
    <<"#", "#", "s", ".", "x">>,
    <<"#", "#", "#", "#", "#", "#", "#", "s", ".">> }

FindNames == { <<"s", ".">>, <<"S", ".">>, <<"s">>, <<".">>, <<"s", "x">> }

FindDocs == { join(ls) : ls \in LineSeqs(FindLineKinds, MaxLines) }

\* the body of the update: a line that no document has
FindBody == <<"y">>

FindInit ==
  /\ mSugg \in [section : FindNames, content : {FindBody}]
  /\ \E d \in FindDocs : mHist = <<d>>
  /\ mList = <<>>
  /\ mFound = NotCalled
  /\ ParseIdle
  /\ HookIdle

\* findSection(content, section)
FindSectionCall ==
  /\ mFound = NotCalled
  /\ Len(mHist) >= 1
  /\ mFound' = findSection(mHist[1], mSugg.section)
  /\ UNCHANGED <<mSugg, mHist, mList, parseVars, hookVars>>

\* updateSection(content, section, suggestionContent)
UpdateSectionCall ==
  /\ Len(mHist) = 1
  /\ mHist' = Append(mHist, updateSection(mHist[1], mSugg.section, mSugg.content))
  /\ UNCHANGED <<mSugg, mList, mFound, parseVars, hookVars>>

FindNext == FindSectionCall \/ UpdateSectionCall

SpecFind == FindInit /\ [][FindNext]_vars

(***************************************************************************)
(* The response parser applied to bounded replies.                         *)
(***************************************************************************)
ParseInit ==
  /\ pReply \in Replies
  /\ pParsed = Pending
  /\ pAnalysis = Pending
  /\ MergeIdle
  /\ HookIdle

ParseResponseCall ==
  /\ pParsed = Pending
  /\ pParsed' = parseResponse(pReply)
  /\ UNCHANGED <<pReply, pAnalysis, mergeVars, hookVars>>

AnalyzeChangesCall ==
  /\ pAnalysis = Pending
  /\ \E api \in {"text", "nontext", "error"} :
       pAnalysis' = analyzeChanges(api, pReply)
  /\ UNCHANGED <<pReply, pParsed, mergeVars, hookVars>>

ParseNext == ParseResponseCall \/ AnalyzeChangesCall

SpecParse == ParseInit /\ [][ParseNext]_vars

(***************************************************************************)
(* Properties of the merge engine.                                         *)
(***************************************************************************)
\* the suggestion takes the "update an existing section" branch on document d
IsUpdateOf(d, sugg) ==
  /\ Len(sugg.content) > 0
  /\ ~includes(toLowerCase(sugg.section), NewSectionLit)
  /\ ~includes(toLowerCase(sugg.section), AfterLit \o <<SP>>)
  /\ \E k \in 1..Len(split(d)) : sectionPattern(sugg.section, split(d)[k])

\* index of the first line of ls that the section name selects
HeadingAt(ls, name) ==
  CHOOSE i \in 1..Len(ls) :
    /\ sectionPattern(name, ls[i])
    /\ \A j \in 1..(i - 1) : ~sectionPattern(name, ls[j])

\* index of the first heading line after line i, Len(ls) + 1 when there is none
NextHeadingAfter(ls, i) ==
  CHOOSE e \in (i + 1)..(Len(ls) + 1) :
    /\ e <= Len(ls) => headingPattern(ls[e])
    /\ \A j \in (i + 1)..(e - 1) : ~headingPattern(ls[j])

\* r is d with the selected section replaced by the lines of the body
ReplacesSection(d, sugg, r) ==
  LET ls == split(d)
      rs == split(r)
      bs == split(sugg.content)
      i == HeadingAt(ls, sugg.section)
      e == NextHeadingAfter(ls, i)
  IN /\ Len(rs) = (i - 1) + Len(bs) + (Len(ls) - e + 1)
     /\ \A k \in 1..(i - 1) : rs[k] = ls[k]
     /\ \A k \in 1..Len(bs) : rs[i - 1 + k] = bs[k]
     /\ \A k \in e..Len(ls) : rs[i - 1 + Len(bs) + (k - e + 1)] = ls[k]

\* C3: when a plain-section suggestion matches a heading, the result is the
\* document with exactly the lines from that heading up to, not including,
\* the next heading line (or the end) replaced by the body's lines; the
\* lines before the heading and from the next heading on are unchanged.
C3_UpdateReplacesExactlyTheSection ==
  \A k \in 1..(Len(mHist) - 1) :
    IsUpdateOf(mHist[k], mSugg) => ReplacesSection(mHist[k], mSugg, mHist[k + 1])

\* a section between a kept first line and a kept following heading was replaced
C3_Witness ==
  /\ Len(mHist) >= 2
  /\ IsUpdateOf(mHist[1], mSugg)
  /\ HeadingAt(split(mHist[1]), mSugg.section) = 2
  /\ NextHeadingAfter(split(mHist[1]), 2) = 3
  /\ Len(split(mHist[1])) = 3
  /\ mHist[2] # mHist[1]

\* C2 as stated: for every update suggestion with a non-empty body whose
\* section names a heading of the document, applying it a second time
\* leaves the result of the first application unchanged.
C2_IdempotentForEveryUpdate ==
  (Len(mHist) >= 3 /\ IsUpdateOf(mHist[1], mSugg)) => mHist[3] = mHist[2]

\* the body starts with a heading the section name selects and has no other
\* heading line
BodyRetainsHeading(sugg) ==
  LET bs == split(sugg.content)
  IN /\ sectionPattern(sugg.section, bs[1])
     /\ \A k \in 2..Len(bs) : ~headingPattern(bs[k])

\* C2 amended: applying an update suggestion a second time leaves the text
\* unchanged when the body's first line is itself a heading selected by the
\* section name and no later line of the body is a heading line.
C2_IdempotentWhenBodyRetainsHeading ==
  (Len(mHist) >= 3 /\ IsUpdateOf(mHist[1], mSugg) /\ BodyRetainsHeading(mSugg))
    => mHist[3] = mHist[2]

\* an update that changed the document was applied twice
C2_Witness ==
  /\ Len(mHist) >= 3
  /\ IsUpdateOf(mHist[1], mSugg)
  /\ BodyRetainsHeading(mSugg)
  /\ mHist[2] # mHist[1]
  /\ Len(split(mSugg.content)) = 2

(***************************************************************************)
(* Properties of the response parser.                                      *)
(***************************************************************************)
HasJsonSpan(reply) ==
  \E i, j \in 1..Len(reply) : i < j /\ reply[i] = "{" /\ reply[j] = "}"

Decodes(reply) == HasJsonSpan(reply) /\ JSONparse(jsonMatch(reply)).ok

NeedsUpdateIsBoolean(reply) ==
  Decodes(reply) /\ JSONparse(jsonMatch(reply)).val.m["needsUpdate:"].t = "boolean"

SuggestionsIsSequence(reply) ==
  Decodes(reply) /\ JSONparse(jsonMatch(reply)).val.m["suggestions:"].t = "array"

IsFallback(outcome) ==
  /\ outcome.kind = "return"
  /\ outcome.value.needsUpdate = FALSE
  /\ outcome.value.suggestions = <<>>
  /\ outcome.value.error # ""

\* C7: parseResponse never raises, and every validation failure (no JSON
\* span, undecodable JSON, needsUpdate not boolean, suggestions not a
\* sequence) is returned as {needsUpdate: false, suggestions: [], error:
\* non-empty diagnostic}.
C7_ParseResponseNeverRaises ==
  pParsed # Pending =>
    /\ pParsed.kind = "return"
    /\ (~(NeedsUpdateIsBoolean(pReply) /\ SuggestionsIsSequence(pReply))
          => IsFallback(pParsed))

\* a reply that decodes and has a boolean needsUpdate but suggestions that is
\* no sequence has been parsed
C7_Witness ==
  /\ pParsed # Pending
  /\ NeedsUpdateIsBoolean(pReply)
  /\ ~SuggestionsIsSequence(pReply)
  /\ IsFallback(pParsed)

\* C8 as stated: every AnalysisResult returned by analyzeChanges that has its
\* error field set has needsUpdate = false and no suggestions.
C8_ErrorImpliesNoUpdate ==
  (pAnalysis.kind = "return" /\ pAnalysis.value.error # NoError)
    => (pAnalysis.value.needsUpdate = FALSE /\ pAnalysis.value.suggestions = <<>>)

(***************************************************************************)
(* Properties of the webhook handler.                                      *)
(***************************************************************************)
Did(d, entry) == \E k \in 1..Len(trace[d]) : trace[d][k] = entry

Wrote(d) == Did(d, "createOrUpdateFileContents: written")
Conflicted(d) == Did(d, "createOrUpdateFileContents: conflict")
WriteFailed(d) == Conflicted(d) \/ Did(d, "createOrUpdateFileContents: failed")
Done(d) == pc[d] = "done"

\* C1 as stated: of two deliveries that were inside the commit step together
\* and whose writes were both answered by the platform, exactly one write
\* succeeded and the other was rejected with a conflict that ends its
\* delivery with a commit failure; never did both writes succeed.
C1_ConcurrentCommitsOneWins ==
  \A d, e \in Deliveries :
    (/\ d # e
     /\ {d, e} \in overlap
     /\ Done(d) /\ Done(e)
     /\ Wrote(d) \/ Conflicted(d)
     /\ Wrote(e) \/ Conflicted(e))
    => /\ ~(Wrote(d) /\ Wrote(e))
       /\ Conflicted(d) => result[d].status = 500
       /\ Conflicted(e) => result[e].status = 500

MarkerComments == {k \in 1..Len(comments) : comments[k].body.marker = Marker}

\* C4 as stated: after any sequence of accepted pull-request deliveries for
\* the PR, the PR carries at most one comment bearing the bot's marker.
C4_AtMostOneMarkerComment ==
  (\A d \in Deliveries : req[d].eventType = "pull_request")
    => Cardinality(MarkerComments) <= 1

\* C5 as stated: a pull-request delivery (opened, synchronize, reopened)
\* whose analysis says needsUpdate and whose merged text differs from the
\* current text has committed the README update when it ends.
C5_PullRequestDeliveryCommits ==
  \A d \in Deliveries :
    (/\ Done(d)
     /\ req[d].eventType = "pull_request"
     /\ req[d].payload.action \in HandledActions
     /\ analysis[d].needsUpdate
     /\ applySuggestionsToReadme(readme[d], ToSuggestions(analysis[d].suggestions))
          # readme[d])
    => Wrote(d)

\* a nested field that the delivery needs is missing from the payload: the
\* pull request of a pull-request event, the issue and comment of an
\* issue-comment event, the text of a created comment on a pull request, and
\* repository, repository.owner, installation (and comment.user) of an event
\* whose action, or command, is one the dispatcher handles
LacksRequiredField(r) ==
  LET pl == r.payload IN
  IF r.eventType = "pull_request"
  THEN \/ pl.pull_request # "ok"
       \/ pl.action \in HandledActions
            /\ (pl.repository # "ok" \/ pl.installation # "ok")
  ELSE \/ pl.issue = "missing"
       \/ pl.comment = "missing"
       \/ pl.action = "created" /\ pl.issue = "pr"
            /\ (\/ pl.body.t # "string"
                \/ trim(pl.body.s) = ApplyCommand
                     /\ (pl.repository # "ok" \/ pl.installation # "ok" \/ pl.user # "ok"))

\* C6 as stated: a POST delivery of type pull request or issue comment whose
\* payload lacks a required nested field ends with a 400-class response.
C6_MalformedPayloadIs400 ==
  \A d \in Deliveries :
    (/\ Done(d)
     /\ req[d].method = "POST"
     /\ req[d].eventType \in {"pull_request", "issue_comment"}
     /\ LacksRequiredField(req[d]))
    => (result[d].status >= 400 /\ result[d].status <= 499)

\* C9 as stated: when the README write fails in the commit step, the
\* delivery has posted a comment that records the failure with the commit
\* error message, and it ends with the commit error as a 500 response.
C9_WriteFailureCommentedAndPropagated ==
  \A d \in Deliveries :
    (Done(d) /\ WriteFailed(d))
    => /\ \E k \in 1..Len(comments) :
            /\ comments[k].delivery = d
            /\ comments[k].body.outcome = "Commit Failed"
            /\ comments[k].body.errorMessage = commitErr[d]
       /\ result[d].status = 500
       /\ result[d].error = commitErr[d]

\* C10 as stated: a failed comment creation never changes the outcome of the
\* delivery: the pull-request path still ends with success, the apply path
\* still ends with the commit error.
C10_CommentFailureNeverEscalates ==
  \A d \in Deliveries :
    (Done(d) /\ Did(d, "createComment: failed"))
    => IF req[d].eventType = "pull_request"
       THEN result[d].status = 200 /\ result[d].error = ""
       ELSE result[d].status = 500 /\ result[d].error = commitErr[d]

(***************************************************************************)
(* Properties of the pipeline of a single delivery.                        *)
(***************************************************************************)
FetchErrors ==
  { "Failed to fetch PR data: request failed",
    "Failed to fetch README.md: request failed",
    "Failed to fetch PR diff: request failed" }

ModelErrors ==
  { "Failed to analyze changes: request failed",
    "Failed to analyze changes: Unexpected response format from Claude API" }

CommentCalls == {"createComment: created", "createComment: failed"}

WriteCalls ==
  { "createOrUpdateFileContents: written",
    "createOrUpdateFileContents: conflict",
    "createOrUpdateFileContents: failed" }

Fetches == <<"getPullRequestData", "getCurrentReadme", "getDiffContent">>

\* the calls of delivery d that are among the given ones
CallsOf(d, entries) == {k \in 1..Len(trace[d]) : trace[d][k] \in entries}

CommentsOf(d) == {k \in 1..Len(comments) : comments[k].delivery = d}

\* C11: a delivery in which one of the three fetches or the model-service
\* call failed ends with a 500 response and has made no comment call and no
\* README write; the model is invoked only after the three fetches, in
\* order, all succeeded, and never in a delivery whose fetch failed.
C11_FetchOrModelFailureAborts ==
  \A d \in Deliveries :
    /\ (Done(d) /\ result[d].error \in FetchErrors \cup ModelErrors)
         => /\ result[d].status = 500
            /\ CallsOf(d, CommentCalls \cup WriteCalls) = {}
            /\ CommentsOf(d) = {}
    /\ result[d].error \in FetchErrors => ~Did(d, "messages.create")
    /\ Did(d, "messages.create")
         => /\ Len(trace[d]) >= 4
            /\ SubSeq(trace[d], 1, 3) = Fetches
            /\ trace[d][4] = "messages.create"

\* the diff fetch of a pull-request delivery failed after two good fetches
C11_Witness ==
  /\ Done(1)
  /\ req[1].eventType = "pull_request"
  /\ result[1].error = "Failed to fetch PR diff: request failed"
  /\ trace[1] = Fetches

ParseDiagnostics ==
  { "Failed to parse response: " \o m :
      m \in { "No JSON found in response",
              "Unexpected token in JSON",
              "Invalid response: needsUpdate must be boolean",
              "Invalid response: suggestions must be array" } }

\* the reply of the model to delivery d could not be parsed
ParseFailed(d) == analysis[d].error \in ParseDiagnostics

\* position of the first occurrence of entry in the trace of d, 0 when absent
FirstAt(d, entry) ==
  IF Did(d, entry)
  THEN CHOOSE k \in 1..Len(trace[d]) :
         trace[d][k] = entry /\ \A j \in 1..(k - 1) : trace[d][j] # entry
  ELSE 0

\* C12: a delivery whose model reply cannot be parsed is not aborted: its
\* analysis has needsUpdate = false, it never enters the commit step, it
\* ends with a 200 response, and whenever it has posted a comment that says
\* no README updates are needed, the parse diagnostic was logged before the
\* comment was created.
C12_ParseFailureDegradesAndIsLogged ==
  \A d \in Deliveries :
    ParseFailed(d)
      => /\ analysis[d].needsUpdate = FALSE
         /\ CallsOf(d, WriteCalls \cup {"pulls.get", "repos.getContent"}) = {}
         /\ ~InCommit(d)
         /\ Done(d) => (result[d].status = 200 /\ result[d].error = "")
         /\ \A k \in CommentsOf(d) :
              comments[k].body.verdict = "No README updates needed"
                => /\ Did(d, "warn: Analysis Error")
                   /\ FirstAt(d, "warn: Analysis Error")
                        < FirstAt(d, "createComment: created")

\* a pull-request delivery whose reply was prose posted the "no updates" comment
C12_Witness ==
  /\ Done(1)
  /\ req[1].eventType = "pull_request"
  /\ analysis[1].error = "Failed to parse response: No JSON found in response"
  /\ \E k \in CommentsOf(1) : comments[k].body.verdict = "No README updates needed"
  /\ result[1].status = 200

(***************************************************************************)
(* Properties of the dispatcher.                                           *)
(***************************************************************************)
\* the text is the command literal with nothing but whitespace around it
IsCommandText(s) ==
  \E i \in 1..(Len(s) + 1) : \E j \in 0..Len(s) :
    /\ SubSeq(s, i, j) = ApplyCommand
    /\ \A k \in 1..(i - 1) : IsSpace(s[k])
    /\ \A k \in (j + 1)..Len(s) : IsSpace(s[k])

\* action = created, the parent issue is a pull request, the body is the command
IsApplyCommand(r) ==
  /\ r.payload.action = "created"
  /\ r.payload.issue = "pr"
  /\ r.payload.body.t = "string"
  /\ IsCommandText(r.payload.body.s)

\* an issue-comment payload that carries every field main reads
WellFormedComment(r) ==
  /\ ~r.payload.empty
  /\ r.payload.issue # "missing"
  /\ r.payload.comment = "present"
  /\ r.payload.body.t = "string"
  /\ r.payload.user = "ok"
  /\ r.payload.repository = "ok"
  /\ r.payload.installation = "ok"

\* main has called analyzePR or commitReadmeFromAnalysis for delivery d
EnteredPipeline(d) ==
  \/ pc[d] \notin {"off", "main", "done"}
  \/ trace[d] # <<>>
  \/ result[d].error = "ANTHROPIC_API_KEY environment variable is required"

IgnoredBodies ==
  { "Event ignored", "PR action ignored", "Comment action ignored",
    "Non-PR comment ignored", "Comment ignored - not apply command" }

\* delivery d ended as ignored: a 200 response and no downstream call
Ignored(d) ==
  /\ result[d].status = 200
  /\ result[d].body \in IgnoredBodies
  /\ result[d].error = ""
  /\ trace[d] = <<>>
  /\ CommentsOf(d) = {}

\* C13: a POST issue-comment delivery enters commitReadmeFromAnalysis only
\* if action = created, the parent issue is a pull request and the trimmed
\* body is the command literal; with a payload that carries every field
\* main reads it enters it whenever these three hold, and every other such
\* delivery ends ignored, with a 200 response and no downstream call.
C13_ApplyCommandRouting ==
  \A d \in Deliveries :
    (req[d].method = "POST" /\ req[d].eventType = "issue_comment")
      => /\ EnteredPipeline(d) => IsApplyCommand(req[d])
         /\ (Done(d) /\ WellFormedComment(req[d]))
              => IF IsApplyCommand(req[d]) THEN EnteredPipeline(d) ELSE Ignored(d)

\* the command with a leading line break entered the commit pipeline
C13_Witness ==
  /\ req[1].method = "POST"
  /\ req[1].eventType = "issue_comment"
  /\ WellFormedComment(req[1])
  /\ req[1].payload.body.s = <<NL>> \o ApplyCommand
  /\ Did(1, "getPullRequestData")
  /\ Done(1)

\* a created comment on a pull request, in a payload with every field main
\* reads, whose body is the given text
IsCommentWith(r, text) ==
  /\ r.method = "POST"
  /\ r.eventType = "issue_comment"
  /\ WellFormedComment(r)
  /\ r.payload.action = "created"
  /\ r.payload.issue = "pr"
  /\ r.payload.body.s = text

CommandTrailingSpace == ApplyCommand \o <<SP>>

\* the command literal with a second space between its two words
CommandInnerSpace ==
  SubSeq(ApplyCommand, 1, 21) \o <<SP>> \o SubSeq(ApplyCommand, 22, 26)

\* C14 as stated: a created comment on a pull request whose body is the
\* command literal followed by a trailing space is ignored: a 200 ignored
\* result, and the commit pipeline is not started.
C14_TrailingSpaceIgnored ==
  \A d \in Deliveries :
    (Done(d) /\ IsCommentWith(req[d], CommandTrailingSpace))
      => (Ignored(d) /\ ~EnteredPipeline(d))

\* C14 amended: a created comment on a pull request whose body is the
\* command literal followed by a trailing space is accepted and starts the
\* commit pipeline, the trailing space being trimmed; a body with extra
\* whitespace inside the literal is ignored with a 200 result.
C14_TrailingSpaceAccepted ==
  \A d \in Deliveries :
    /\ (Done(d) /\ IsCommentWith(req[d], CommandTrailingSpace))
         => (EnteredPipeline(d) /\ result[d].body \notin IgnoredBodies)
    /\ (Done(d) /\ IsCommentWith(req[d], CommandInnerSpace)) => Ignored(d)

\* the command with a trailing space went through the fetches of the pipeline
C14_Witness ==
  /\ Done(1)
  /\ IsCommentWith(req[1], CommandTrailingSpace)
  /\ Did(1, "getDiffContent")

\* a pull-request payload that carries every field main reads
WellFormedPull(r) ==
  /\ ~r.payload.empty
  /\ r.payload.pull_request = "ok"
  /\ r.payload.repository = "ok"
  /\ r.payload.installation = "ok"

\* C15: a POST pull-request delivery enters analyzePR only when its action
\* is opened, synchronize or reopened; with any other action and a payload
\* that carries every field main reads it ends with the ignored 200
\* response and no downstream call (no fetch, model call, comment or write).
C15_OtherPullRequestActionsIgnored ==
  \A d \in Deliveries :
    (req[d].method = "POST" /\ req[d].eventType = "pull_request")
      => /\ EnteredPipeline(d)
              => req[d].payload.action \in {"opened", "synchronize", "reopened"}
         /\ (/\ Done(d)
             /\ WellFormedPull(req[d])
             /\ req[d].payload.action \notin {"opened", "synchronize", "reopened"})
              => (Ignored(d) /\ result[d].body = "PR action ignored")

\* a well-formed pull-request delivery with action labeled has been answered
C15_Witness ==
  /\ Done(1)
  /\ req[1].method = "POST"
  /\ req[1].eventType = "pull_request"
  /\ WellFormedPull(req[1])
  /\ req[1].payload.action = "labeled"
  /\ result[1].body = "PR action ignored"

\* C16 as stated: every POST delivery whose event type is neither pull
\* request nor issue comment ends with a 2xx ignored result and no
\* downstream call, whatever its payload, and never with a 4xx or 5xx status.
C16_OtherEventTypesIgnored ==
  \A d \in Deliveries :
    (/\ Done(d)
     /\ req[d].method = "POST"
     /\ req[d].eventType \notin {"pull_request", "issue_comment"})
    => (/\ result[d].status >= 200
        /\ result[d].status <= 299
        /\ Ignored(d))

\* C17: a request whose method is not POST is answered 405, whatever its
\* event type and payload (an empty or malformed one included), with no
\* downstream call.
C17_NonPostIs405 ==
  \A d \in Deliveries :
    (Done(d) /\ req[d].method # "POST")
      => /\ result[d].status = 405
         /\ result[d].body = "Method not allowed"
         /\ result[d].error = ""
         /\ trace[d] = <<>>
         /\ CommentsOf(d) = {}

\* a GET request with an empty payload has been answered
C17_Witness ==
  /\ Done(1)
  /\ req[1].method = "GET"
  /\ req[1].payload.empty
  /\ result[1].status = 405

ResponseStatuses == {200, 400, 401, 405, 500}

\* delivery d has its response
Responded(d) == result[d].status # 0

\* C18: every invocation of main that has ended has returned a response
\* whose status is one of 200, 400, 401, 405, 500, also when a payload
\* access or a downstream step threw (no error leaves main); a delivery has
\* no response before it ends, and its response never changes afterwards.
C18_OneResponseNeverRaises ==
  /\ [](\A d \in Deliveries :
          /\ Done(d) <=> Responded(d)
          /\ Done(d) => result[d].status \in ResponseStatuses)
  /\ [][\A d \in Deliveries : Responded(d) => result'[d] = result[d]]_vars

\* a payload access threw and main answered 500
C18_Witness ==
  /\ Done(1)
  /\ result[1].error = "TypeError"
  /\ result[1].status = 500

(***************************************************************************)
(* Properties of the apply command.                                        *)
(***************************************************************************)
CommitCalls == {"pulls.get", "repos.getContent"} \cup WriteCalls

\* delivery d is an apply command that main accepted
AcceptedApply(d) == req[d].eventType = "issue_comment" /\ EnteredPipeline(d)

\* the commit step of d ended without a write because the merge changed nothing
CommitNoOp(d) ==
  /\ Done(d)
  /\ Did(d, "pulls.get")
  /\ result[d].status = 200
  /\ CallsOf(d, WriteCalls) = {}

HeadSha == IF readmeHead.exists THEN Sha(readmeHead.content) ELSE NoSha

\* C20: the sha lookup of the commit step reads README.md on the head
\* branch of the PR's head repository, every write that the platform
\* accepts puts the merged text there, and README.md of the base repository
\* is never written.
C20_WritesTargetHead ==
  [][/\ readmeMain' = readmeMain
     /\ \A d \in Deliveries :
          /\ (pc[d] = "repos.getContent" /\ pc'[d] = "createOrUpdateFileContents")
               => sha'[d] = HeadSha
          /\ (~Wrote(d) /\ Wrote(d)')
               => (sha[d] = HeadSha /\ readmeHead' = File(updated[d]))]_vars

\* an apply command created README.md on the head branch while the base
\* repository has a README.md of its own
C20_Witness ==
  /\ Wrote(1)
  /\ readmeMain.exists
  /\ readmeHead.exists
  /\ readmeHead # readmeMain
  /\ sha[1] = NoSha

(***************************************************************************)
(* Properties of the commit step.                                          *)
(***************************************************************************)
\* the analysis of d asks for one new section with a non-empty body
OneNewSection(d) ==
  /\ Did(d, "messages.create")
  /\ analysis[d].needsUpdate
  /\ Len(analysis[d].suggestions) = 1
  /\ ToSuggestion(analysis[d].suggestions[1]).section = NewSectionLit
  /\ Len(ToSuggestion(analysis[d].suggestions[1]).content) > 0

\* C21 as stated: when the README text fetched for the delivery is empty and
\* the analysis has needsUpdate = true with one "new section" suggestion
\* with a non-empty body, the write of the commit step is sent with no prior
\* SHA: it creates README.md and updates no existing file.
C21_EmptyReadmeIsCreated ==
  \A d \in Deliveries :
    (/\ AcceptedApply(d)
     /\ OneNewSection(d)
     /\ readme[d] = <<>>
     /\ CallsOf(d, WriteCalls) # {})
    => sha[d] = NoSha

PullsGetErrors ==
  { "Failed to commit README updates: request failed",
    "Failed to commit README updates: Unable to determine head repository information from PR" }

\* the suggestions of d applied to the text d fetched give that text again
MergeIsIdentity(d) ==
  /\ ~mergeThrows(analysis[d].suggestions)
  /\ applySuggestionsToReadme(readme[d], ToSuggestions(analysis[d].suggestions))
       = readme[d]

IsPlainName(section) ==
  /\ ~includes(toLowerCase(section), NewSectionLit)
  /\ ~includes(toLowerCase(section), AfterLit \o <<SP>>)

\* no line of document d is a heading that the name selects
HeadingAbsent(d, name) ==
  \A k \in 1..Len(split(d)) : ~sectionPattern(name, split(d)[k])

\* C23: for a non-empty body, a suggestion whose plain targetSection names
\* a heading absent from the document gives the document followed by two
\* newlines and the body, the same text a "new section" suggestion with
\* that body gives: it ends with the body and is Len(body) + 2 longer.
C23_AbsentHeadingAppends ==
  \A k \in 1..(Len(mHist) - 1) :
    (/\ Len(mSugg.content) > 0
     /\ IsPlainName(mSugg.section)
     /\ HeadingAbsent(mHist[k], mSugg.section))
    => /\ mHist[k + 1] = mHist[k] \o <<NL, NL>> \o mSugg.content
       /\ mHist[k + 1] = applySingleSuggestion(
                            mHist[k], [section |-> NewSectionLit, content |-> mSugg.content])
       /\ Len(mHist[k + 1]) = Len(mHist[k]) + Len(mSugg.content) + 2
       /\ SubSeq(mHist[k + 1], Len(mHist[k]) + 3, Len(mHist[k + 1])) = mSugg.content

\* a two-line body was appended to a document that has other headings
C23_Witness ==
  /\ Len(mHist) >= 2
  /\ IsPlainName(mSugg.section)
  /\ HeadingAbsent(mHist[1], mSugg.section)
  /\ \E k \in 1..Len(split(mHist[1])) : headingPattern(split(mHist[1])[k])
  /\ Len(split(mSugg.content)) = 2
  /\ Len(mSugg.content) > 0
  /\ mHist[2] # mHist[1]

\* the section value is "after X", in any letter case, X without whitespace
IsAfterName(section) ==
  /\ Len(section) >= 7
  /\ toLowerCase(SubSeq(section, 1, 6)) = AfterLit \o <<SP>>
  /\ \A k \in 7..Len(section) : ~IsSpace(section[k])
  /\ ~includes(toLowerCase(section), NewSectionLit)

\* the X of "after X"
AfterTarget(section) == SubSeq(section, 7, Len(section))

\* r is d with an empty line, the body's lines and an empty line put right
\* before the first heading line after the first heading that name selects
InsertsAfter(d, name, body, r) ==
  LET ls == split(d)
      i == HeadingAt(ls, name)
      e == NextHeadingAfter(ls, i)
  IN r = join(SubSeq(ls, 1, e - 1) \o <<<<>>>> \o split(body) \o <<<<>>>>
                \o SubSeq(ls, e, Len(ls)))

\* C24: for a suggestion "after X" with a non-empty body: if a heading
\* matching X exists, the result is the document with an empty line, the
\* body's lines and an empty line inserted immediately before the next
\* heading line after the first matching heading (at the end when there is
\* none), every existing line kept in order; if no heading matches X, the
\* result is the document followed by two newlines and the body.
C24_AfterInsertsBeforeNextHeading ==
  \A k \in 1..(Len(mHist) - 1) :
    (Len(mSugg.content) > 0 /\ IsAfterName(mSugg.section))
      => IF HeadingAbsent(mHist[k], AfterTarget(mSugg.section))
         THEN mHist[k + 1] = mHist[k] \o <<NL, NL>> \o mSugg.content
         ELSE InsertsAfter(mHist[k], AfterTarget(mSugg.section), mSugg.content,
                           mHist[k + 1])

\* a body was inserted between the text of a section and the next heading
C24_Witness ==
  /\ Len(mHist) >= 2
  /\ IsAfterName(mSugg.section)
  /\ Len(mSugg.content) > 0
  /\ ~HeadingAbsent(mHist[1], AfterTarget(mSugg.section))
  /\ Len(split(mHist[1])) = 3
  /\ HeadingAt(split(mHist[1]), AfterTarget(mSugg.section)) = 1
  /\ NextHeadingAfter(split(mHist[1]), 1) = 3

(***************************************************************************)
(* Properties of the merge of a suggestion list.                           *)
(***************************************************************************)
\* the list holds two update suggestions, with different non-empty bodies,
\* for the same heading of document d
TwoUpdatesOfOneHeading(d, list) ==
  /\ Len(list) = 2
  /\ list[1].section = list[2].section
  /\ list[1].content # list[2].content
  /\ IsUpdateOf(d, list[1])
  /\ IsUpdateOf(d, list[2])

AllBodiesEmpty(list) == \A k \in 1..Len(list) : Len(list[k].content) = 0

\* C26: the merge returns the document unchanged for every suggestion list
\* in which each suggestion has an empty body, whatever the targetSection
\* values are; in particular for the empty list.
C26_EmptyBodiesChangeNothing ==
  (Len(mHist) = 2 /\ AllBodiesEmpty(mList)) => mHist[2] = mHist[1]

\* a "new section" and an update of a present heading, both with an empty
\* body, were merged
C26_Witness ==
  /\ Len(mHist) = 2
  /\ Len(mList) = 2
  /\ AllBodiesEmpty(mList)
  /\ mList[1].section = NewSectionLit
  /\ IsPlainName(mList[2].section)
  /\ ~HeadingAbsent(mHist[1], mList[2].section)

(***************************************************************************)
(* Further properties of the response parser.                              *)
(***************************************************************************)
RECURSIVE closeOf(_, _, _)
\* index of the "}" that brings the brace depth back to 0 from token i on,
\* 0 when there is none
closeOf(ts, i, depth) ==
  IF i > Len(ts) THEN 0
  ELSE IF ts[i] = "{" THEN closeOf(ts, i + 1, depth + 1)
  ELSE IF ts[i] = "}" THEN (IF depth = 1 THEN i ELSE closeOf(ts, i + 1, depth - 1))
  ELSE closeOf(ts, i + 1, depth)

\* index of the first "{" of the reply, 0 when there is none
FirstOpen(reply) ==
  IF \E i \in 1..Len(reply) : reply[i] = "{"
  THEN CHOOSE i \in 1..Len(reply) :
         reply[i] = "{" /\ \A j \in 1..(i - 1) : reply[j] # "{"
  ELSE 0

\* the first balanced {...} span of the reply, <<>> when there is none
FirstBalancedSpan(reply) ==
  LET o == FirstOpen(reply)
      c == IF o = 0 THEN 0 ELSE closeOf(reply, o + 1, 1)
  IN IF c = 0 THEN <<>> ELSE SubSeq(reply, o, c)

\* the span decodes to an object with a boolean needsUpdate and a sequence
\* of suggestions
IsResultObject(span) ==
  /\ span # <<>>
  /\ JSONparse(span).ok
  /\ JSONparse(span).val.t = "object"
  /\ JSONparse(span).val.m["needsUpdate:"].t = "boolean"
  /\ JSONparse(span).val.m["suggestions:"].t = "array"

\* the reply goes on after its first balanced span with text that has a "}"
BraceAfterFirstSpan(reply) ==
  LET end == FirstOpen(reply) + Len(FirstBalancedSpan(reply)) - 1
  IN \E k \in (end + 1)..Len(reply) : reply[k] = "}"

\* C27 as stated: for a reply made of a valid result object followed by
\* further text that contains a closing brace, parseResponse returns the
\* result encoded by the first balanced {...} span, not a parse failure.
C27_FirstBalancedSpanDecoded ==
  (/\ pParsed # Pending
   /\ IsResultObject(FirstBalancedSpan(pReply))
   /\ BraceAfterFirstSpan(pReply))
  => pParsed = Return(AsResult(JSONparse(FirstBalancedSpan(pReply)).val))

(***************************************************************************)
(* Properties of the heading selection.                                    *)
(***************************************************************************)
\* the line is 1 to 6 "#", optional whitespace, then text that begins with
\* the name, letter case aside and each character of the name taken as it is
LiteralHeading(line, name) ==
  \E h \in 1..6 : \E w \in 0..Len(line) :
    /\ h + w + Len(name) <= Len(line)
    /\ \A k \in 1..h : line[k] = HASH
    /\ \A k \in (h + 1)..(h + w) : IsSpace(line[k])
    /\ \A k \in 1..Len(name) : Lower(line[h + w + k]) = Lower(name[k])

\* index of the first such line of the document, 0 when there is none
SelectedLine(d, name) ==
  LET ls == split(d)
  IN IF \E k \in 1..Len(ls) : LiteralHeading(ls[k], name)
     THEN CHOOSE k \in 1..Len(ls) :
            LiteralHeading(ls[k], name) /\ \A j \in 1..(k - 1) : ~LiteralHeading(ls[j], name)
     ELSE 0

\* C28: findSection returns the first line made of 1 to 6 "#", optional
\* whitespace and text that begins with the section name, compared without
\* regard to letter case and with the name taken literally, and nothing when
\* there is no such line; updateSection puts the body at that very line,
\* the lines before it unchanged, and changes nothing when there is none.
C28_FirstLiteralHeadingSelected ==
  LET sel == SelectedLine(mHist[1], mSugg.section) IN
  (mSugg.section \in FindNames /\ Len(mHist) >= 1)
    => /\ mFound # NotCalled
            => mFound = IF sel = 0 THEN NoSection
                        ELSE [lineIndex |-> sel, line |-> split(mHist[1])[sel]]
       /\ Len(mHist) = 2
            => IF sel = 0 THEN mHist[2] = mHist[1]
               ELSE /\ SubSeq(split(mHist[2]), 1, sel - 1)
                         = SubSeq(split(mHist[1]), 1, sel - 1)
                    /\ split(mHist[2])[sel] = FindBody

\* the name "s." selected the second heading of a document whose first
\* heading has another character in the place of the dot
C28_Witness ==
  /\ mSugg.section = <<"s", ".">>
  /\ Len(mHist) = 2
  /\ mFound # NotCalled
  /\ split(mHist[1])[1] = <<"#", " ", "s", "x">>
  /\ SelectedLine(mHist[1], mSugg.section) = 2
  /\ mFound.lineIndex = 2

(***************************************************************************)
(* Properties of the conditional write.                                    *)
(***************************************************************************)
\* C29 as stated: a README write is accepted only when README.md on the
\* head branch, at the time of the write, has the text that the delivery
\* fetched and merged its suggestions into; otherwise the write is rejected
\* and the head branch keeps its README.md.
C29_ShaIdentifiesMergedRevision ==
  [][\A d \in Deliveries :
       (~Wrote(d) /\ Wrote(d)') => readmeHead.content = readme[d]]_vars

(***************************************************************************)
(* Deliveries that the platform makes for the bot's own actions: an        *)
(* issue_comment "created" event for each comment the bot posted and a     *)
(* pull_request "synchronize" event for each commit it pushed to the head  *)
(* branch of the PR.                                                       *)
(***************************************************************************)
BotActions ==
  { <<"comment", k>> : k \in 1..Len(comments) }
    \cup { <<"push", d>> : d \in {x \in Deliveries : Wrote(x)} }

\* the delivery whose action it was
SourceOf(ev) == IF ev[1] = "comment" THEN comments[ev[2]].delivery ELSE ev[2]

\* the event that the platform sends for the action
EventOf(ev) ==
  IF ev[1] = "comment"
  THEN [method |-> "POST", eventType |-> "issue_comment",
        payload |-> [WellFormed("created", TRUE) EXCEPT
                       !.body = StringValue(commentText(comments[ev[2]].body))]]
  ELSE [method |-> "POST", eventType |-> "pull_request",
        payload |-> WellFormed("synchronize", FALSE)]

\* the function instance of e is free: it has not run, or it has returned and
\* every event for what it did was delivered
Free(e) ==
  \/ pc[e] = "off"
  \/ /\ pc[e] = "done"
     /\ \A ev \in BotActions : SourceOf(ev) = e => ev \in announced

\* the platform delivers the event of an action of the bot
Emit(ev, e) ==
  /\ ev \in BotActions \ announced
  /\ Free(e)
  /\ hops[SourceOf(ev)] < MaxChain
  /\ req' = [req EXCEPT ![e] = EventOf(ev)]
  /\ pc' = [pc EXCEPT ![e] = "main"]
  /\ readme' = [readme EXCEPT ![e] = <<>>]
  /\ analysis' = [analysis EXCEPT ![e] = NoAnalysis]
  /\ updated' = [updated EXCEPT ![e] = <<>>]
  /\ sha' = [sha EXCEPT ![e] = NoSha]
  /\ commitErr' = [commitErr EXCEPT ![e] = ""]
  /\ result' = [result EXCEPT ![e] = NoResult]
  /\ trace' = [trace EXCEPT ![e] = <<>>]
  /\ overlap' = {p \in overlap : e \notin p}
  /\ hops' = [hops EXCEPT ![e] = hops[SourceOf(ev)] + 1]
  /\ announced' = (announced \ {<<"push", e>>}) \cup {ev}
  /\ UNCHANGED <<apiKey, platformVars, mergeVars, parseVars>>

\* one event of a user: a PR is opened or the apply command is posted
ChainInit ==
  HookInitWith({ [d \in Deliveries |-> IF d = 1 THEN r ELSE NoRequest] :
                   r \in PipelineRequests })

ChainNext ==
  \/ Next
  \/ \E e \in Deliveries : \E k \in 1..Len(comments) : Emit(<<"comment", k>>, e)
  \/ \E e \in Deliveries : \E d \in Deliveries : Emit(<<"push", d>>, e)

SpecChain == ChainInit /\ [][ChainNext]_vars

(***************************************************************************)
(* Properties of the deliveries the bot causes itself.                     *)
(***************************************************************************)
SelfTriggered(d) == hops[d] > 0

=============================================================================
